---------------------------- MODULE Spec2Model ----------------------------
(***************************************************************************)
(* Model of the cookie pool manager of src/cookie_manager.py               *)
(* (class CookieManager) and of its callers in src/admin_api.py.           *)
(*                                                                         *)
(* Strings.  A Python str is modelled as a sequence of symbols.  The       *)
(* symbol "-" stands for one occurrence of the four-character separator    *)
(* '----'; every other symbol stands for a separator-free piece of text.   *)
(* The empty str '' is the empty sequence << >>.  Python's None is the     *)
(* reserved one-symbol sequence NoneVal, which no str of the model equals. *)
(*                                                                         *)
(* Scheduling.  The program runs on one asyncio event loop: the code       *)
(* between two suspension points runs without interleaving.  asyncio.Lock  *)
(* is never held across a suspension point, so acquiring it never          *)
(* suspends.  Each action below is one such uninterrupted stretch.         *)
(***************************************************************************)
EXTENDS Integers, Sequences, FiniteSets, TLC

VARIABLES
    cookies,         \* self.cookies: the Pool, a sequence of raw strings
    cookie_info,     \* self.cookie_info: insertion-ordered dict, as a sequence of items
    current_index,   \* self.current_index: the Cursor
    failed_cookies,  \* self.failed_cookies: the FailedSet
    refresh,         \* one batch_refresh_tokens call in flight (or idle)
    nrefresh,        \* number of batch_refresh_tokens calls started so far
    ret,             \* what the last completed operation was and returned
    hist,            \* tokens returned by the get_next_cookie calls that directly follow construction
    health,          \* periodic_health_check: asleep, or probing the rest of its copy of the failed set
    lock,            \* self.lock: "free", or the task that holds it
    loop,            \* auto_refresh_periodic: not started, asleep, or awaiting batch_refresh_tokens
    settings         \* config.settings (the fields the pool's callers use) and the .env file

vars == <<cookies, cookie_info, current_index, failed_cookies, refresh, nrefresh, ret, hist, health,
          lock, loop, settings>>

-----------------------------------------------------------------------------
(* Bounds of the model *)

\* longest list handed to the constructor
MaxPool == 2
\* number of batch_refresh_tokens calls in one behaviour
MaxRefresh == 1
\* number of batch_refresh_tokens calls in one behaviour of SpecRefresh and of
\* SpecSemaphore, and the value at which the count of calls stops
MaxBatches == 2
\* longest string handed to _extract_token on its own
MaxLen == 7
\* largest max_concurrent handed to batch_refresh_tokens in SpecSemaphore
MaxConcurrent == 2

-----------------------------------------------------------------------------
(* Strings *)

Sep == "-"
NoneVal == <<"#">>
EmptyStr == << >>
Unknown == <<"?">>

\* Python truthiness of an Optional[str]
Truthy(s) == s # NoneVal /\ s # EmptyStr

\* '----' in s
HasSep(s) == \E i \in 1..Len(s) : s[i] = Sep

\* index of the first separator of s (s holds one)
FirstSep(s) == CHOOSE i \in 1..Len(s) : s[i] = Sep /\ \A j \in 1..(i-1) : s[j] # Sep

\* s.split('----')
RECURSIVE Split(_)
Split(s) ==
    IF ~HasSep(s) THEN <<s>>
    ELSE <<SubSeq(s, 1, FirstSep(s) - 1)>> \o Split(SubSeq(s, FirstSep(s) + 1, Len(s)))

\* f"{a}----{b}----{c}"
Join3(a, b, c) == a \o <<Sep>> \o b \o <<Sep>> \o c


-----------------------------------------------------------------------------
(* The credential index: an insertion-ordered dict *)

\* the default of get_cookie_info, and the record _parse_cookies stores first
DefaultInfo == [email |-> EmptyStr, password |-> EmptyStr, has_credentials |-> FALSE, raw_cookie |-> NoneVal]

CredInfo(email, password, raw) ==
    [email |-> email, password |-> password, has_credentials |-> TRUE, raw_cookie |-> raw]

\* key in d
DictHas(d, k) == \E i \in 1..Len(d) : d[i].key = k

DictPos(d, k) == CHOOSE i \in 1..Len(d) : d[i].key = k

\* d[key] = info: an existing key keeps its place, a new key goes last
DictSet(d, k, info) ==
    IF DictHas(d, k)
    THEN [d EXCEPT ![DictPos(d, k)] = [key |-> k, info |-> info]]
    ELSE Append(d, [key |-> k, info |-> info])

\* del d[key]
DictDel(d, k) ==
    LET p == DictPos(d, k) IN SubSeq(d, 1, p - 1) \o SubSeq(d, p + 1, Len(d))

\* one iteration of the loop of _parse_cookies
ParseOne(d, cookie) ==
    LET d1 == DictSet(d, cookie, DefaultInfo)
        parts == Split(cookie)
    IN  IF ~HasSep(cookie) THEN d1
        ELSE IF Len(parts) = 3 THEN DictSet(d1, parts[3], CredInfo(parts[1], parts[2], cookie))
        ELSE IF Len(parts) = 2 THEN DictSet(d1, cookie, CredInfo(parts[1], parts[2], cookie))
        ELSE d1

\* _parse_cookies, run on the dict d for the list cs
RECURSIVE parse_cookies(_, _)
parse_cookies(d, cs) ==
    IF cs = << >> THEN d ELSE parse_cookies(ParseOne(d, Head(cs)), Tail(cs))

\* get_cookie_info
get_cookie_info(d, k) == IF DictHas(d, k) THEN d[DictPos(d, k)].info ELSE DefaultInfo

-----------------------------------------------------------------------------
(* Token extraction and resolution *)

\* _extract_token
extract_token(cookie) ==
    LET parts == Split(cookie) IN
    IF ~Truthy(cookie) THEN NoneVal
    ELSE IF HasSep(cookie) /\ Len(parts) >= 3 THEN parts[Len(parts)]
    ELSE cookie

\* mutant: the last matching entry instead of the first
find_full_cookie_by_token_last(cs, token) ==
    IF \E i \in 1..Len(cs) : cs[i] = token \/ extract_token(cs[i]) = token
    THEN cs[CHOOSE i \in 1..Len(cs) :
                /\ (cs[i] = token \/ extract_token(cs[i]) = token)
                /\ \A j \in (i+1)..Len(cs) : ~(cs[j] = token \/ extract_token(cs[j]) = token)]
    ELSE NoneVal

\* _find_full_cookie_by_token: the first entry equal to the token or extracting to it
find_full_cookie_by_token(cs, token) ==
    IF \E i \in 1..Len(cs) : cs[i] = token \/ extract_token(cs[i]) = token
    THEN cs[CHOOSE i \in 1..Len(cs) :
                /\ (cs[i] = token \/ extract_token(cs[i]) = token)
                /\ \A j \in 1..(i-1) : ~(cs[j] = token \/ extract_token(cs[j]) = token)]
    ELSE NoneVal

-----------------------------------------------------------------------------
(* get_next_cookie.  Indices are Python's: position i of the list is cs[i+1]. *)

\* the while loop of get_next_cookie from the state (attempts, idx): the token found
\* and the index left behind, NoneVal when the scan ends without a candidate, or an
\* IndexError when idx is no index of the list
RECURSIVE ScanLoop(_, _, _, _)
ScanLoop(cs, failed, attempts, idx) ==
    IF attempts >= Len(cs) THEN [kind |-> "exhausted", val |-> NoneVal, idx |-> idx]
    ELSE IF idx >= Len(cs) THEN [kind |-> "error", val |-> NoneVal, idx |-> idx]
    ELSE LET cookie == cs[idx + 1]
             nidx == (idx + 1) % Len(cs)
             actual_token == extract_token(cookie)
         IN  IF cookie \notin failed /\ Truthy(actual_token)
             THEN [kind |-> "token", val |-> actual_token, idx |-> nidx]
             ELSE ScanLoop(cs, failed, attempts + 1, nidx)

\* mutant: an empty list falls through to the reset of the failed set
NextCookie_reset_on_empty(cs, failed, idx) ==
    IF cs = << >> THEN [kind |-> "none", val |-> NoneVal, idx |-> 0, failed |-> {}]
    ELSE LET r == ScanLoop(cs, failed, 0, idx) IN
         IF r.kind = "error" THEN [kind |-> "error", val |-> NoneVal, idx |-> idx, failed |-> failed]
         ELSE IF r.kind = "token" THEN [kind |-> "token", val |-> r.val, idx |-> r.idx, failed |-> failed]
         ELSE IF failed # {} THEN [kind |-> "token", val |-> extract_token(cs[1]), idx |-> r.idx, failed |-> {}]
         ELSE [kind |-> "none", val |-> NoneVal, idx |-> r.idx, failed |-> failed]

\* the whole of get_next_cookie: what it returns and the state it leaves
NextCookie(cs, failed, idx) ==
    IF cs = << >> THEN [kind |-> "none", val |-> NoneVal, idx |-> idx, failed |-> failed]
    ELSE LET r == ScanLoop(cs, failed, 0, idx) IN
         IF r.kind = "error" THEN [kind |-> "error", val |-> NoneVal, idx |-> idx, failed |-> failed]
         ELSE IF r.kind = "token" THEN [kind |-> "token", val |-> r.val, idx |-> r.idx, failed |-> failed]
         ELSE IF failed # {} THEN [kind |-> "token", val |-> extract_token(cs[1]), idx |-> r.idx, failed |-> {}]
         ELSE [kind |-> "none", val |-> NoneVal, idx |-> r.idx, failed |-> failed]

-----------------------------------------------------------------------------
(* batch_refresh_tokens *)

\* a result slot of asyncio.gather that is not filled yet
\* semaphore = asyncio.Semaphore(max_concurrent), with the default of the parameter
DefaultMaxConcurrent == 20

Pending == <<"~">>

\* a refresh task inside `async with semaphore`, awaiting refresh_token
Running == <<"@">>

\* lines 280-293: one (refresh_cookie, email, password) per selected item of cookie_info
RECURSIVE cookies_to_refresh(_)
cookies_to_refresh(d) ==
    IF d = << >> THEN << >>
    ELSE LET cookie == Head(d).key
             info == Head(d).info
             refresh_cookie == IF Truthy(info.raw_cookie) /\ info.raw_cookie # cookie
                               THEN info.raw_cookie ELSE cookie
         IN  IF info.has_credentials /\ Truthy(info.email) /\ Truthy(info.password)
             THEN <<[cookie |-> refresh_cookie, email |-> info.email, password |-> info.password]>>
                      \o cookies_to_refresh(Tail(d))
             ELSE cookies_to_refresh(Tail(d))

\* the first of the indices S found by a search from the front, 0 when there is none
FirstIndex(S) ==
    IF S = {} THEN 0 ELSE CHOOSE i \in S : \A j \in S : i <= j

\* s or 'unknown'
OrUnknown(s) == IF Truthy(s) THEN s ELSE Unknown

\* lines 334-474: one result (old_cookie, new_token) applied to the working state
\* st = [list, info, updated, refreshed, failed]
CommitOne(st, old_cookie, new_token) ==
    LET lst == st.list
        d == st.info
        Direct == { i \in 1..Len(lst) : lst[i] = old_cookie }
        ViaInfo == { i \in 1..Len(lst) :
                        \/ lst[i] = old_cookie
                        \/ (DictHas(d, lst[i]) /\ get_cookie_info(d, lst[i]).raw_cookie = old_cookie) }
        cookie_index == IF Direct # {} THEN FirstIndex(Direct) ELSE FirstIndex(ViaInfo)
        ByRaw == { i \in 1..Len(d) : d[i].info.raw_cookie = old_cookie }
        info0 == IF DictHas(d, old_cookie) THEN get_cookie_info(d, old_cookie)
                 ELSE IF ByRaw # {} THEN d[FirstIndex(ByRaw)].info
                 ELSE DefaultInfo
        parts == Split(old_cookie)
        fromParts == ~Truthy(info0.email) /\ HasSep(old_cookie) /\ Len(parts) >= 2
        email == IF fromParts THEN parts[1] ELSE info0.email
        real_password == IF fromParts THEN parts[2] ELSE info0.password
        \* lines 402-457: no email found
        email2 == IF HasSep(old_cookie) /\ Len(parts) >= 3 THEN OrUnknown(parts[1]) ELSE Unknown
        password2 == IF HasSep(old_cookie) /\ Len(parts) >= 3 THEN OrUnknown(parts[2]) ELSE Unknown
        e == IF Truthy(email) THEN email ELSE email2
        pw == IF Truthy(email) THEN real_password ELSE password2
        full_format_cookie == Join3(e, pw, new_token)
        new_info == CredInfo(e, pw, full_format_cookie)
        d1 == DictSet(DictSet(d, full_format_cookie, new_info), new_token, new_info)
        d2 == IF Truthy(email) /\ DictHas(d1, old_cookie) /\ old_cookie # new_token
              THEN DictDel(d1, old_cookie) ELSE d1
    IN  IF ~Truthy(new_token) \/ cookie_index = 0
        THEN [st EXCEPT !.failed = @ + 1]
        ELSE [list |-> [lst EXCEPT ![cookie_index] = full_format_cookie],
              info |-> d2,
              updated |-> Append(st.updated, full_format_cookie),
              refreshed |-> st.refreshed + 1,
              failed |-> st.failed]

\* mutant: the loop over the results ends after the first result
CommitResults_first(st, tasks, results) ==
    IF tasks = << >> THEN st
    ELSE CommitOne(st, Head(tasks).cookie, Head(results))

\* lines 328-474: the loop over the results, in the order of the tasks
RECURSIVE CommitResults(_, _, _)
CommitResults(st, tasks, results) ==
    IF tasks = << >> THEN st
    ELSE CommitResults(CommitOne(st, Head(tasks).cookie, Head(results)), Tail(tasks), Tail(results))

-----------------------------------------------------------------------------
(* Inputs *)

\* raw strings an operator may configure: a bare token, a composite carrying the
\* same token, and a three-segment string that ends with the separator (its
\* password and its token are empty)
RawUniverse ==
    { <<"t">>,
      <<"e", "-", "p", "-", "t">>,
      <<"f", "-", "-">> }

\* lists of at most n raw strings
RECURSIVE ListsUpTo(_)
ListsUpTo(n) ==
    IF n = 0 THEN { << >> }
    ELSE ListsUpTo(n - 1) \cup { Append(l, r) : l \in { x \in ListsUpTo(n - 1) : Len(x) = n - 1 }, r \in RawUniverse }

\* settings.COOKIES at construction (config.py drops empty strings)
InitPools == ListsUpTo(MaxPool)

\* the lists the Admin API hands to update_cookies: [] from DELETE /api/cookies and
\* the one-entry lists of POST /api/cookies (shorter than the pools of InitPools)
UpdateLists == { << >> } \cup { <<r>> : r \in RawUniverse }

\* tokens callers report to mark_cookie_failed and mark_cookie_success: a token two
\* entries may carry, a whole raw string, and a token no entry carries
MarkTokens == { <<"t">>, <<"e", "-", "p", "-", "t">>, <<"z">> }

\* tokens the sign-in service returns: the current one again, or a new one
SignInTokens == { <<"t">>, <<"n">> }

-----------------------------------------------------------------------------
(* State *)

Ret(op, arg, kind, val) ==
    [op |-> op, arg |-> arg, kind |-> kind, val |-> val,
     total_count |-> 0, refreshed_count |-> 0, failed_count |-> 0, updated_cookies |-> << >>,
     unlocked |-> {}, response |-> NoneVal]

\* who called batch_refresh_tokens: the Admin API's refresh_cookies, or auto_refresh_periodic
Admin == <<"admin">>
Loop == <<"loop">>

Idle == [pc |-> "idle", caller |-> NoneVal, max_concurrent |-> 0, tasks |-> << >>, results |-> << >>,
         replaced |-> FALSE]

\* auto_refresh_periodic was not started: lifespan found AUTO_REFRESH_TOKENS false
LoopOff == [pc |-> "off"]

\* ','.join(cookies)
RECURSIVE JoinComma(_)
JoinComma(cs) ==
    IF cs = << >> THEN EmptyStr
    ELSE IF Len(cs) = 1 THEN cs[1]
    ELSE cs[1] \o <<",">> \o JoinComma(Tail(cs))

\* what the .env file holds after `if os.path.exists(env_file): try: set_key(...) except`:
\* no file stays no file, and a write that raises leaves the file as it was
WriteEnv(env, cs) == IF env = NoneVal THEN { env } ELSE { env, JoinComma(cs) }

\* the callers' persistence after batch_refresh_tokens returned: settings.COOKIES and
\* the .env file are written when refreshed_count > 0
Persist(s, refreshed_count, cs) ==
    IF refreshed_count > 0
    THEN { [s EXCEPT !.COOKIES = cs, !.env = e] : e \in WriteEnv(s.env, cs) }
    ELSE { s }

\* periodic_health_check in one of its asyncio.sleep calls
Asleep == [pc |-> "sleep", todo |-> {}]

\* __init__, and the module-level CookieManager(settings.COOKIES)
Init ==
    /\ cookies \in InitPools
    /\ cookie_info = parse_cookies(<< >>, cookies)
    /\ current_index = 0
    /\ failed_cookies = {}
    /\ refresh = Idle
    /\ nrefresh = 0
    /\ ret = Ret("init", NoneVal, "none", NoneVal)
    /\ hist = [live |-> TRUE, rets |-> << >>]
    /\ health = Asleep
    /\ lock = "free"
    /\ loop = LoopOff
    /\ settings = [AUTO_REFRESH_TOKENS |-> FALSE, COOKIES |-> cookies, env |-> NoneVal]

NoHist == [live |-> FALSE, rets |-> << >>]

\* mutant: the selection walks the keys of cookie_info instead of self.cookies
get_next_cookie_from_index ==
    LET keys == [i \in 1..Len(cookie_info) |-> cookie_info[i].key]
        r == NextCookie(keys, failed_cookies, current_index)
    IN  /\ cookies # << >> => lock = "free"
        /\ current_index' = r.idx
        /\ failed_cookies' = r.failed
        /\ ret' = Ret("get_next_cookie", NoneVal, r.kind, r.val)
        /\ hist' = NoHist
        /\ UNCHANGED <<cookies, cookie_info, refresh, nrefresh, health, lock, loop, settings>>

\* get_next_cookie
get_next_cookie ==
    LET r == NextCookie(cookies, failed_cookies, current_index) IN
    /\ cookies # << >> => lock = "free"
    /\ current_index' = r.idx
    /\ failed_cookies' = r.failed
    /\ ret' = Ret("get_next_cookie", NoneVal, r.kind, r.val)
    /\ hist' = IF hist.live /\ Len(hist.rets) < 2 * Len(cookies)
               THEN [hist EXCEPT !.rets = Append(@, r.val)]
               ELSE NoHist
    /\ UNCHANGED <<cookies, cookie_info, refresh, nrefresh, health, lock, loop, settings>>

\* mark_cookie_failed
mark_cookie_failed(token) ==
    LET full_cookie == find_full_cookie_by_token(cookies, token) IN
    /\ lock = "free"
    /\ failed_cookies' = IF Truthy(full_cookie) THEN failed_cookies \cup {full_cookie} ELSE failed_cookies
    /\ ret' = Ret("mark_cookie_failed", token, "none", NoneVal)
    /\ hist' = NoHist
    /\ UNCHANGED <<cookies, cookie_info, current_index, refresh, nrefresh, health, lock, loop, settings>>

\* mutant: a recovered token clears the whole failed set
mark_cookie_success_clear(token) ==
    LET full_cookie == find_full_cookie_by_token(cookies, token) IN
    /\ lock = "free"
    /\ failed_cookies' = IF Truthy(full_cookie) THEN {} ELSE failed_cookies
    /\ ret' = Ret("mark_cookie_success", token, "none", NoneVal)
    /\ hist' = NoHist
    /\ UNCHANGED <<cookies, cookie_info, current_index, refresh, nrefresh, health, lock, loop, settings>>

\* mark_cookie_success
mark_cookie_success(token) ==
    LET full_cookie == find_full_cookie_by_token(cookies, token) IN
    /\ lock = "free"
    /\ failed_cookies' = IF Truthy(full_cookie) /\ full_cookie \in failed_cookies
                         THEN failed_cookies \ {full_cookie} ELSE failed_cookies
    /\ ret' = Ret("mark_cookie_success", token, "none", NoneVal)
    /\ hist' = NoHist
    /\ UNCHANGED <<cookies, cookie_info, current_index, refresh, nrefresh, health, lock, loop, settings>>

\* CookieManager.update_cookies, as called by the Admin API's update_cookies and clear_cookies,
\* which first set settings.COOKIES and afterwards write the .env file; refresh.replaced
\* remembers that the call came while a batch was waiting for its sign-ins
update_cookies(new_cookies) ==
    /\ cookies' = new_cookies
    /\ refresh' = IF refresh.pc = "gather" THEN [refresh EXCEPT !.replaced = TRUE] ELSE refresh
    /\ cookie_info' = parse_cookies(<< >>, new_cookies)
    /\ settings' \in { [settings EXCEPT !.COOKIES = new_cookies, !.env = e] :
                           e \in WriteEnv(settings.env, new_cookies) }
    /\ ret' = [Ret("update_cookies", NoneVal, "none", NoneVal) EXCEPT
                   !.unlocked = {"cookies", "cookie_info"}]
    /\ hist' = NoHist
    /\ UNCHANGED <<current_index, failed_cookies, nrefresh, health, lock, loop>>

\* mutant: the batch takes self.lock before it selects and keeps it while it awaits
\* the sign-in responses
StartBatch_locked(caller, max_concurrent) ==
    LET todo == cookies_to_refresh(cookie_info) IN
    /\ refresh.pc = "idle"
    /\ lock = "free"
    /\ nrefresh' = IF nrefresh < MaxBatches THEN nrefresh + 1 ELSE nrefresh
    /\ IF todo = << >>
       THEN /\ refresh' = Idle
            /\ lock' = lock
            /\ ret' = Ret("batch_refresh_tokens", caller, "none", NoneVal)
       ELSE /\ refresh' = [pc |-> "gather", caller |-> caller, max_concurrent |-> max_concurrent,
                           tasks |-> todo, results |-> [i \in 1..Len(todo) |-> Pending],
                           replaced |-> FALSE]
            /\ lock' = "refresh"
            /\ ret' = Ret("batch_refresh_start", caller, "none", NoneVal)
    /\ hist' = NoHist
    /\ UNCHANGED <<cookies, cookie_info, current_index, failed_cookies, health>>

\* batch_refresh_tokens(max_concurrent) up to its await of asyncio.gather (lines 273-322),
\* called by caller; nrefresh counts the calls, up to MaxBatches
StartBatch(caller, max_concurrent) ==
    LET todo == cookies_to_refresh(cookie_info) IN
    /\ refresh.pc = "idle"
    /\ nrefresh' = IF nrefresh < MaxBatches THEN nrefresh + 1 ELSE nrefresh
    /\ IF todo = << >>
       THEN /\ refresh' = Idle
            /\ ret' = Ret("batch_refresh_tokens", caller, "none", NoneVal)
       ELSE /\ refresh' = [pc |-> "gather", caller |-> caller, max_concurrent |-> max_concurrent,
                           tasks |-> todo, results |-> [i \in 1..Len(todo) |-> Pending],
                           replaced |-> FALSE]
            /\ ret' = Ret("batch_refresh_start", caller, "none", NoneVal)
    /\ hist' = NoHist
    /\ UNCHANGED <<cookies, cookie_info, current_index, failed_cookies, health, lock>>

\* the Admin API's refresh_cookies up to its await inside batch_refresh_tokens()
batch_refresh_start ==
    /\ StartBatch(Admin, DefaultMaxConcurrent)
    /\ UNCHANGED <<loop, settings>>

\* the refresh tasks of the batch that hold the semaphore
InFlight(r) == { i \in 1..Len(r.tasks) : r.results[i] = Running }

\* mutant: the refresh tasks call refresh_token without the semaphore
refresh_without_semaphore(i) ==
    /\ refresh.pc = "gather"
    /\ i \in 1..Len(refresh.tasks)
    /\ refresh.results[i] = Pending
    /\ refresh' = [refresh EXCEPT !.results[i] = Running]
    /\ ret' = Ret("refresh_with_semaphore", NoneVal, "none", NoneVal)
    /\ hist' = NoHist
    /\ UNCHANGED <<cookies, cookie_info, current_index, failed_cookies, nrefresh, health, lock, loop, settings>>

\* refresh_with_semaphore of task i enters `async with semaphore` and calls refresh_token
refresh_with_semaphore(i) ==
    /\ refresh.pc = "gather"
    /\ i \in 1..Len(refresh.tasks)
    /\ refresh.results[i] = Pending
    /\ Cardinality(InFlight(refresh)) < refresh.max_concurrent
    /\ refresh' = [refresh EXCEPT !.results[i] = Running]
    /\ ret' = Ret("refresh_with_semaphore", NoneVal, "none", NoneVal)
    /\ hist' = NoHist
    /\ UNCHANGED <<cookies, cookie_info, current_index, failed_cookies, nrefresh, health, lock, loop, settings>>

\* refresh_token of task i ends and the semaphore is released: the sign-in service's token,
\* or None for every failure; a task that had not entered the semaphore enters it here
refresh_token(i, new_token) ==
    /\ refresh.pc = "gather"
    /\ i \in 1..Len(refresh.tasks)
    /\ \/ refresh.results[i] = Running
       \/ /\ refresh.results[i] = Pending
          /\ Cardinality(InFlight(refresh)) < refresh.max_concurrent
    /\ refresh' = [refresh EXCEPT !.results[i] = new_token]
    /\ ret' = Ret("refresh_token", NoneVal, "none", NoneVal)
    /\ hist' = NoHist
    /\ UNCHANGED <<cookies, cookie_info, current_index, failed_cookies, nrefresh, health, lock, loop, settings>>

\* mutant: the commit rewrites self.cookies in place, one result per step, and the batch
\* stays in flight until the last result is applied
batch_refresh_commit_in_place ==
    /\ refresh.pc = "gather"
    /\ refresh.caller = Admin
    /\ \A i \in 1..Len(refresh.tasks) : refresh.results[i] \notin {Pending, Running}
    /\ LET st0 == [list |-> cookies, info |-> cookie_info, updated |-> << >>, refreshed |-> 0, failed |-> 0]
           st == CommitOne(st0, Head(refresh.tasks).cookie, Head(refresh.results))
       IN  /\ cookies' = st.list
           /\ cookie_info' = st.info
           /\ ret' = [Ret("batch_refresh_tokens", NoneVal, "none", NoneVal) EXCEPT
                          !.total_count = Len(refresh.tasks),
                          !.refreshed_count = st.refreshed,
                          !.failed_count = st.failed,
                          !.updated_cookies = st.updated]
           /\ settings' \in Persist(settings, st.refreshed, st.list)
    /\ refresh' = IF Len(refresh.tasks) > 1
                  THEN [refresh EXCEPT !.tasks = Tail(@), !.results = Tail(@)]
                  ELSE Idle
    /\ hist' = NoHist
    /\ UNCHANGED <<current_index, failed_cookies, nrefresh, health, lock, loop>>

\* every refresh task of the batch has returned: asyncio.gather returns
Gathered(r) == \A i \in 1..Len(r.tasks) : r.results[i] \notin {Pending, Running}

\* batch_refresh_tokens from the return of asyncio.gather to its own return (lines 325-487);
\* cookie_info is written where each result is processed, self.cookies under self.lock
CommitBatch ==
    /\ refresh.pc = "gather"
    /\ Gathered(refresh)
    /\ lock = "free"
    /\ LET st0 == [list |-> cookies, info |-> cookie_info, updated |-> << >>, refreshed |-> 0, failed |-> 0]
           st == CommitResults(st0, refresh.tasks, refresh.results)
       IN  /\ cookies' = st.list
           /\ cookie_info' = st.info
           /\ ret' = [Ret("batch_refresh_tokens", refresh.caller, "none", NoneVal) EXCEPT
                          !.total_count = Len(refresh.tasks),
                          !.refreshed_count = st.refreshed,
                          !.failed_count = st.failed,
                          !.updated_cookies = st.updated,
                          !.unlocked = IF st.refreshed > 0 THEN {"cookie_info"} ELSE {}]
    /\ refresh' = Idle
    /\ hist' = NoHist
    /\ UNCHANGED <<current_index, failed_cookies, nrefresh, health, lock>>

\* the Admin API's refresh_cookies from the return of gather: batch_refresh_tokens returns
\* and the endpoint persists the pool
batch_refresh_commit ==
    /\ refresh.caller = Admin
    /\ CommitBatch
    /\ settings' \in Persist(settings, ret'.refreshed_count, cookies')
    /\ UNCHANGED loop

Next ==
    \/ get_next_cookie
    \/ \E token \in MarkTokens : mark_cookie_failed(token)
    \/ \E token \in MarkTokens : mark_cookie_success(token)
    \/ \E new_cookies \in UpdateLists : update_cookies(new_cookies)
    \/ (nrefresh < MaxRefresh /\ batch_refresh_start)
    \/ \E i \in 1..Len(refresh.tasks), new_token \in SignInTokens \cup {NoneVal} : refresh_token(i, new_token)
    \/ batch_refresh_commit

Spec == Init /\ [][Next]_vars

-----------------------------------------------------------------------------
(* Repeated refreshes: the constructed pool under get_next_cookie, update_cookies *)
(* and up to MaxBatches calls of batch_refresh_tokens, one after the other        *)

NextRefresh ==
    \/ get_next_cookie
    \/ \E new_cookies \in UpdateLists : update_cookies(new_cookies)
    \/ (nrefresh < MaxBatches /\ batch_refresh_start)
    \/ \E i \in 1..Len(refresh.tasks), new_token \in SignInTokens \cup {NoneVal} : refresh_token(i, new_token)
    \/ batch_refresh_commit

SpecRefresh == Init /\ [][NextRefresh]_vars

-----------------------------------------------------------------------------
(* The semaphore: batch_refresh_tokens called with a small max_concurrent, each *)
(* refresh task seen entering the semaphore and leaving it                      *)

\* a caller of batch_refresh_tokens that passes max_concurrent and persists nothing
DirectCall == <<"call">>

\* batch_refresh_tokens(max_concurrent) up to its await of asyncio.gather
batch_refresh_tokens(max_concurrent) ==
    /\ StartBatch(DirectCall, max_concurrent)
    /\ UNCHANGED <<loop, settings>>

\* batch_refresh_tokens(max_concurrent) from the return of gather to its own return
batch_refresh_return ==
    /\ refresh.caller = DirectCall
    /\ CommitBatch
    /\ UNCHANGED <<loop, settings>>

NextSemaphore ==
    \/ \E max_concurrent \in 1..MaxConcurrent :
           (nrefresh < MaxBatches /\ batch_refresh_tokens(max_concurrent))
    \/ \E i \in 1..Len(refresh.tasks) : refresh_with_semaphore(i)
    \/ \E i \in 1..Len(refresh.tasks), new_token \in SignInTokens \cup {NoneVal} : refresh_token(i, new_token)
    \/ batch_refresh_return

SpecSemaphore == Init /\ [][NextSemaphore]_vars

-----------------------------------------------------------------------------
(* Replacing the pool while a batch waits: update_cookies with lists that hold *)
(* an entry the sign-in service refreshed before, bare and composite          *)

ReplaceLists ==
    UpdateLists \cup { << <<"n">>, <<"e", "-", "p", "-", "n">> >> }

NextReplace ==
    \/ \E new_cookies \in ReplaceLists : update_cookies(new_cookies)
    \/ (nrefresh < MaxBatches /\ batch_refresh_start)
    \/ \E i \in 1..Len(refresh.tasks), new_token \in SignInTokens \cup {NoneVal} : refresh_token(i, new_token)
    \/ batch_refresh_commit

SpecReplace == Init /\ [][NextReplace]_vars

-----------------------------------------------------------------------------
(* The health loop: Spec with periodic_health_check running beside it *)

\* tokens the upstream chat service answers with HTTP 200
HealthyTokens == { <<"t">> }

\* health_check: TRUE exactly for status 200, FALSE for every other status and exception
health_check(token) == token \in HealthyTokens

\* periodic_health_check from the return of asyncio.sleep to its next suspension: the
\* guard of line 215, the copy of the failed set, and the cookies whose token is empty
\* passed over without a probe (`if token and await ...` suspends for the others only)
periodic_health_wake ==
    /\ health.pc = "sleep"
    /\ cookies # << >> /\ failed_cookies # {}
    /\ LET todo == { cookie \in failed_cookies : Truthy(extract_token(cookie)) } IN
       health' = IF todo = {} THEN Asleep ELSE [pc |-> "probe", todo |-> todo]
    /\ ret' = Ret("periodic_health_check", NoneVal, "none", NoneVal)
    /\ hist' = NoHist
    /\ UNCHANGED <<cookies, cookie_info, current_index, failed_cookies, refresh, nrefresh, lock, loop, settings>>

\* the health_check of one cookie of the copy returns, and mark_cookie_success follows
\* a healthy answer; after the last cookie the loop goes to asyncio.sleep
periodic_health_probe(cookie) ==
    LET token == extract_token(cookie)
        full_cookie == find_full_cookie_by_token(cookies, token)
    IN  /\ health.pc = "probe"
        /\ cookie \in health.todo
        /\ health_check(token) => lock = "free"
        /\ failed_cookies' = IF health_check(token) /\ Truthy(full_cookie) /\ full_cookie \in failed_cookies
                             THEN failed_cookies \ {full_cookie} ELSE failed_cookies
        /\ health' = IF health.todo = {cookie} THEN Asleep ELSE [health EXCEPT !.todo = @ \ {cookie}]
        /\ ret' = Ret("health_check", token, "none", NoneVal)
        /\ hist' = NoHist
        /\ UNCHANGED <<cookies, cookie_info, current_index, refresh, nrefresh, lock, loop, settings>>

NextHealth ==
    \/ Next
    \/ periodic_health_wake
    \/ \E cookie \in health.todo : periodic_health_probe(cookie)

\* the loop is never cancelled: every asyncio.sleep returns, and every health_check
\* returns (its request has connect and read timeouts).  The wake-up is given strong
\* fairness: a guard (line 215) that holds again and again is found true by some
\* iteration, so a behaviour in which it merely flickers is not held against the loop
FairHealth ==
    /\ SF_vars(periodic_health_wake)
    /\ WF_vars(\E cookie \in health.todo : periodic_health_probe(cookie))

SpecHealth == Init /\ [][NextHealth]_vars /\ FairHealth

-----------------------------------------------------------------------------
(* health_check on its own: the Admin API's test_cookie, beside the pool's *)
(* selection and marking                                                   *)

\* an exception of the request: connect or read timeout, connection reset
TransportFault == <<"timeout">>

\* what the upstream chat service can answer: a status code, or no answer at all
Responses == { <<"200">>, <<"201">>, <<"401">>, <<"500">>, TransportFault }

\* what the upstream answers to a token
Upstream(token) == IF token \in HealthyTokens THEN { <<"200">> } ELSE Responses \ { <<"200">> }

\* Python's bool as returned to the caller
Bool(b) == IF b THEN <<"True">> ELSE <<"False">>

\* mutant: every answered request counts as healthy
is_healthy_answered(response) == response # TransportFault

\* health_check from the answer of client.post on: `response.status_code == 200`, and
\* False from the handler of every exception
is_healthy(response) == response = <<"200">>

\* the Admin API's test_cookie: cookie_manager.health_check(cookie) and nothing else
test_cookie(cookie, response) ==
    /\ Truthy(cookie)
    /\ response \in Upstream(cookie)
    /\ ret' = [Ret("test_cookie", cookie, "bool", Bool(is_healthy(response))) EXCEPT
                   !.response = response]
    /\ hist' = NoHist
    /\ UNCHANGED <<cookies, cookie_info, current_index, failed_cookies, refresh, nrefresh, health, lock, loop, settings>>

NextProbe ==
    \/ get_next_cookie
    \/ \E token \in MarkTokens : mark_cookie_failed(token)
    \/ \E token \in MarkTokens : mark_cookie_success(token)
    \/ \E cookie \in MarkTokens, response \in Responses : test_cookie(cookie, response)

SpecProbe == Init /\ [][NextProbe]_vars

-----------------------------------------------------------------------------
(* The background loops: lifespan starts periodic_health_check, and           *)
(* auto_refresh_periodic when AUTO_REFRESH_TOKENS is set at startup; it       *)
(* cancels both at shutdown.  A fault is an exception raised in a loop body.  *)

\* a loop whose task has ended
Stopped == "stopped"

\* tokens the sign-in service hands out to the refresh loop
LoopSignInTokens == { <<"n">> }

InitLoops ==
    /\ cookies \in UpdateLists
    /\ cookie_info = parse_cookies(<< >>, cookies)
    /\ current_index = 0
    /\ failed_cookies = {}
    /\ refresh = Idle
    /\ nrefresh = 0
    /\ ret = Ret("init", NoneVal, "none", NoneVal)
    /\ hist = NoHist
    /\ health = Asleep
    /\ lock = "free"
    /\ \E flag \in BOOLEAN, env \in {NoneVal, JoinComma(cookies)} :
          /\ settings = [AUTO_REFRESH_TOKENS |-> flag, COOKIES |-> cookies, env |-> env]
          /\ loop = IF flag THEN [pc |-> "sleep"] ELSE LoopOff

\* the Admin API's update_config with auto_refresh_tokens in the request
update_config(flag) ==
    /\ settings' = [settings EXCEPT !.AUTO_REFRESH_TOKENS = flag]
    /\ ret' = Ret("update_config", NoneVal, "none", NoneVal)
    /\ hist' = NoHist
    /\ UNCHANGED <<cookies, cookie_info, current_index, failed_cookies, refresh, nrefresh, health, lock, loop>>

\* mutant: the loop calls batch_refresh_tokens() whatever the flag says
auto_refresh_wake_unconditional ==
    /\ loop.pc \in {"sleep", "retry"}
    /\ StartBatch(Loop, DefaultMaxConcurrent)
    /\ loop' = [pc |-> IF refresh'.pc = "gather" THEN "refreshing" ELSE "sleep"]
    /\ UNCHANGED settings

\* auto_refresh_periodic from the return of asyncio.sleep (either one) to its next
\* suspension: with the flag set it calls batch_refresh_tokens(), which returns at once
\* when nothing is refreshable (refreshed_count 0: nothing is persisted); with the flag
\* clear it goes back to sleep
auto_refresh_wake ==
    /\ loop.pc \in {"sleep", "retry"}
    /\ IF settings.AUTO_REFRESH_TOKENS
       THEN /\ StartBatch(Loop, DefaultMaxConcurrent)
            /\ loop' = [pc |-> IF refresh'.pc = "gather" THEN "refreshing" ELSE "sleep"]
       ELSE /\ loop' = [pc |-> "sleep"]
            /\ ret' = Ret("auto_refresh_periodic", Loop, "disabled", NoneVal)
            /\ hist' = NoHist
            /\ UNCHANGED <<cookies, cookie_info, current_index, failed_cookies, refresh, nrefresh, health, lock>>
    /\ UNCHANGED settings

\* mutant: the handler of line 55 ends the task instead of sleeping
auto_refresh_return_raise(fault) ==
    /\ loop.pc = "refreshing"
    /\ refresh.caller = Loop
    /\ IF fault = "batch"
       THEN /\ refresh.pc = "gather" /\ Gathered(refresh)
            /\ refresh' = Idle
            /\ loop' = [pc |-> Stopped]
            /\ ret' = Ret("auto_refresh_periodic", Loop, "fault", NoneVal)
            /\ hist' = NoHist
            /\ UNCHANGED <<cookies, cookie_info, current_index, failed_cookies, nrefresh, health, lock, settings>>
       ELSE /\ CommitBatch
            /\ IF fault = "persist"
               THEN /\ ret'.refreshed_count > 0
                    /\ settings' = [settings EXCEPT !.COOKIES = cookies']
                    /\ loop' = [pc |-> Stopped]
               ELSE /\ settings' \in Persist(settings, ret'.refreshed_count, cookies')
                    /\ loop' = [pc |-> "sleep"]

\* auto_refresh_periodic from the return of gather inside its batch_refresh_tokens() to
\* its next asyncio.sleep.  fault "none": the call returns and the result is persisted
\* (lines 33-50); "batch": the call raises before it writes anything; "persist": the
\* persistence raises after settings.COOKIES was assigned (lines 39-42 are outside the
\* inner try).  Both faults are caught at line 55 and followed by asyncio.sleep(300)
auto_refresh_return(fault) ==
    /\ loop.pc = "refreshing"
    /\ refresh.caller = Loop
    /\ IF fault = "batch"
       THEN /\ refresh.pc = "gather" /\ Gathered(refresh)
            /\ refresh' = Idle
            /\ loop' = [pc |-> "retry"]
            /\ ret' = Ret("auto_refresh_periodic", Loop, "fault", NoneVal)
            /\ hist' = NoHist
            /\ UNCHANGED <<cookies, cookie_info, current_index, failed_cookies, nrefresh, health, lock, settings>>
       ELSE /\ CommitBatch
            /\ IF fault = "persist"
               THEN /\ ret'.refreshed_count > 0
                    /\ settings' = [settings EXCEPT !.COOKIES = cookies']
                    /\ loop' = [pc |-> "retry"]
               ELSE /\ settings' \in Persist(settings, ret'.refreshed_count, cookies')
                    /\ loop' = [pc |-> "sleep"]

\* an exception is raised while periodic_health_check handles one cookie of its copy
\* (health_check or mark_cookie_success): line 228 catches it and the loop goes to
\* asyncio.sleep(300), leaving the rest of the copy
periodic_health_fault(cookie) ==
    /\ health.pc = "probe"
    /\ cookie \in health.todo
    /\ health' = [pc |-> "retry", todo |-> {}]
    /\ ret' = Ret("periodic_health_check", extract_token(cookie), "fault", NoneVal)
    /\ hist' = NoHist
    /\ UNCHANGED <<cookies, cookie_info, current_index, failed_cookies, refresh, nrefresh, lock, loop, settings>>

\* asyncio.sleep(300) of line 231 returns and the next iteration runs to its next
\* suspension: the first probe, or asyncio.sleep(600) when line 215 finds nothing to do
periodic_health_retry ==
    /\ health.pc = "retry"
    /\ LET todo == { cookie \in failed_cookies : Truthy(extract_token(cookie)) } IN
       health' = IF cookies # << >> /\ todo # {} THEN [pc |-> "probe", todo |-> todo] ELSE Asleep
    /\ ret' = Ret("periodic_health_check", NoneVal, "none", NoneVal)
    /\ hist' = NoHist
    /\ UNCHANGED <<cookies, cookie_info, current_index, failed_cookies, refresh, nrefresh, lock, loop, settings>>

\* lifespan's shutdown: both tasks are cancelled where they are suspended; CancelledError
\* is no Exception, so neither handler catches it, and a gather the refresh loop was
\* waiting for is cancelled with it
lifespan_shutdown ==
    /\ health.pc # Stopped
    /\ health' = [pc |-> Stopped, todo |-> {}]
    /\ loop' = IF loop = LoopOff THEN loop ELSE [pc |-> Stopped]
    /\ refresh' = IF refresh.caller = Loop THEN Idle ELSE refresh
    /\ ret' = Ret("lifespan_shutdown", NoneVal, "none", NoneVal)
    /\ hist' = NoHist
    /\ UNCHANGED <<cookies, cookie_info, current_index, failed_cookies, nrefresh, lock, settings>>

NextLoops ==
    \/ \E token \in MarkTokens : mark_cookie_failed(token)
    \/ \E flag \in BOOLEAN : update_config(flag)
    \/ auto_refresh_wake
    \/ \E i \in 1..Len(refresh.tasks), new_token \in LoopSignInTokens \cup {NoneVal} : refresh_token(i, new_token)
    \/ \E fault \in {"none", "batch", "persist"} : auto_refresh_return(fault)
    \/ periodic_health_wake
    \/ \E cookie \in health.todo : periodic_health_probe(cookie)
    \/ \E cookie \in health.todo : periodic_health_fault(cookie)
    \/ periodic_health_retry
    \/ lifespan_shutdown

\* every asyncio.sleep(300) returns unless the task is cancelled first
FairLoops ==
    /\ WF_vars(periodic_health_retry)
    /\ WF_vars(loop.pc = "retry" /\ auto_refresh_wake)

SpecLoops == InitLoops /\ [][NextLoops]_vars /\ FairLoops

-----------------------------------------------------------------------------
(* Two calls of batch_refresh_tokens in flight together: the Admin API's       *)
(* refresh_cookies, held in refresh, and the call of auto_refresh_periodic,    *)
(* held in loop with what the loop saw of the other call                       *)

\* the token the sign-in service returns to the Admin API's attempts, and the one it
\* returns to the attempts of auto_refresh_periodic
AdminSignInToken == <<"n">>
LoopSignInToken == <<"z">>

\* auto_refresh_periodic in asyncio.sleep: calls counts the batch_refresh_tokens()
\* calls it has made; before is self.cookies when lifespan started the task; tasks and
\* results are those of its last call, overlapped whether the Admin API's call was in
\* flight during it
LoopAsleep(before, calls, tasks, results, overlapped) ==
    [pc |-> "sleep", before |-> before, calls |-> calls, tasks |-> tasks, results |-> results,
     started |-> 0, overlapped |-> overlapped]

\* lifespan startup with AUTO_REFRESH_TOKENS set: both loops are started
InitOverlap ==
    /\ cookies \in InitPools
    /\ cookie_info = parse_cookies(<< >>, cookies)
    /\ current_index = 0
    /\ failed_cookies = {}
    /\ refresh = Idle
    /\ nrefresh = 0
    /\ ret = Ret("init", NoneVal, "none", NoneVal)
    /\ hist = NoHist
    /\ health = Asleep
    /\ lock = "free"
    /\ loop = LoopAsleep(cookies, 0, << >>, << >>, FALSE)
    /\ \E env \in {NoneVal, JoinComma(cookies)} :
          settings = [AUTO_REFRESH_TOKENS |-> TRUE, COOKIES |-> cookies, env |-> env]

\* auto_refresh_periodic from the return of asyncio.sleep to the gather of its
\* batch_refresh_tokens() call (lines 271-322), whether or not another call is in
\* flight; with nothing to refresh the call returns at once and the loop sleeps again
auto_refresh_overlap_wake ==
    LET todo == cookies_to_refresh(cookie_info) IN
    /\ loop.pc = "sleep"
    /\ loop.calls < MaxRefresh
    /\ settings.AUTO_REFRESH_TOKENS
    /\ IF todo = << >>
       THEN /\ loop' = LoopAsleep(loop.before, loop.calls + 1, << >>, << >>, FALSE)
            /\ ret' = Ret("batch_refresh_tokens", Loop, "none", NoneVal)
       ELSE /\ loop' = [pc |-> "refreshing", before |-> loop.before, calls |-> loop.calls + 1,
                        tasks |-> todo, results |-> [i \in 1..Len(todo) |-> Pending],
                        started |-> nrefresh, overlapped |-> refresh.pc = "gather"]
            /\ ret' = Ret("batch_refresh_start", Loop, "none", NoneVal)
    /\ hist' = NoHist
    /\ UNCHANGED <<cookies, cookie_info, current_index, failed_cookies, refresh, nrefresh, health, lock, settings>>

\* refresh_token of task i of the loop's call ends (DefaultMaxConcurrent exceeds the
\* number of tasks, so the semaphore keeps no task waiting)
auto_refresh_overlap_sign_in(i, new_token) ==
    /\ loop.pc = "refreshing"
    /\ i \in 1..Len(loop.tasks)
    /\ loop.results[i] = Pending
    /\ loop' = [loop EXCEPT !.results[i] = new_token]
    /\ ret' = Ret("refresh_token", Loop, "none", NoneVal)
    /\ hist' = NoHist
    /\ UNCHANGED <<cookies, cookie_info, current_index, failed_cookies, refresh, nrefresh, health, lock, settings>>

\* auto_refresh_periodic from the return of gather inside its batch_refresh_tokens()
\* call to its next asyncio.sleep: the results are applied to the pool and the index as
\* they are now (lines 325-487), then main.py lines 34-47 persist the pool
auto_refresh_overlap_return ==
    /\ loop.pc = "refreshing"
    /\ Gathered(loop)
    /\ lock = "free"
    /\ LET st0 == [list |-> cookies, info |-> cookie_info, updated |-> << >>, refreshed |-> 0, failed |-> 0]
           st == CommitResults(st0, loop.tasks, loop.results)
       IN  /\ cookies' = st.list
           /\ cookie_info' = st.info
           /\ ret' = [Ret("batch_refresh_tokens", Loop, "none", NoneVal) EXCEPT
                          !.total_count = Len(loop.tasks),
                          !.refreshed_count = st.refreshed,
                          !.failed_count = st.failed,
                          !.updated_cookies = st.updated,
                          !.unlocked = IF st.refreshed > 0 THEN {"cookie_info"} ELSE {}]
           /\ settings' \in Persist(settings, st.refreshed, st.list)
    /\ loop' = LoopAsleep(loop.before, loop.calls, loop.tasks, loop.results,
                          loop.overlapped \/ refresh.pc = "gather" \/ nrefresh > loop.started)
    /\ hist' = NoHist
    /\ UNCHANGED <<current_index, failed_cookies, refresh, nrefresh, health, lock>>

\* the sign-in service answers the Admin API's attempts with a token; an attempt of
\* the loop's call may fail
NextOverlap ==
    \/ get_next_cookie
    \/ (nrefresh < MaxRefresh /\ batch_refresh_start)
    \/ \E i \in 1..Len(refresh.tasks) : refresh_token(i, AdminSignInToken)
    \/ batch_refresh_commit
    \/ auto_refresh_overlap_wake
    \/ \E i \in 1..Len(loop.tasks), new_token \in {LoopSignInToken, NoneVal} : auto_refresh_overlap_sign_in(i, new_token)
    \/ auto_refresh_overlap_return

SpecOverlap == InitOverlap /\ [][NextOverlap]_vars

-----------------------------------------------------------------------------
(* _extract_token on its own: every string of at most MaxLen symbols *)

\* the symbols of the strings: a separator-free piece of text, and the separator
Alphabet == { "a", Sep }

\* strings of at most n symbols
RECURSIVE StringsUpTo(_)
StringsUpTo(n) ==
    IF n = 0 THEN { << >> }
    ELSE LET shorter == StringsUpTo(n - 1) IN
         shorter \cup { Append(s, c) : s \in { x \in shorter : Len(x) = n - 1 }, c \in Alphabet }

\* a manager with an empty pool, and a string about to be handed to _extract_token
InitExtract ==
    /\ cookies = << >>
    /\ cookie_info = << >>
    /\ current_index = 0
    /\ failed_cookies = {}
    /\ refresh = Idle
    /\ nrefresh = 0
    /\ ret \in { Ret("input", raw, "none", NoneVal) : raw \in StringsUpTo(MaxLen) }
    /\ hist = NoHist
    /\ health = Asleep
    /\ lock = "free"
    /\ loop = LoopOff
    /\ settings = [AUTO_REFRESH_TOKENS |-> FALSE, COOKIES |-> << >>, env |-> NoneVal]

\* self._extract_token(cookie)
ExtractStep ==
    /\ ret.op = "input"
    /\ ret' = Ret("extract_token", ret.arg, "none", extract_token(ret.arg))
    /\ UNCHANGED <<cookies, cookie_info, current_index, failed_cookies, refresh, nrefresh, hist, health, lock, loop, settings>>

NextExtract == ExtractStep

SpecExtract == InitExtract /\ [][NextExtract]_vars

-----------------------------------------------------------------------------
(* Claims *)

\* positions (1-based) of cs the token resolves to: the raw string equals it or extracts to it
Matches(cs, token) == { i \in 1..Len(cs) : cs[i] = token \/ extract_token(cs[i]) = token }

Min(S) == CHOOSE x \in S : \A y \in S : x <= y

\* positions (1-based) of cs whose raw string is not in failed
Unfailed(cs, failed) == { i \in 1..Len(cs) : cs[i] \notin failed }

\* the first position (1-based) in cyclic order from the 0-based cursor idx that is not in failed
FirstUnfailedFrom(cs, failed, idx) ==
    LET k == Min({ j \in 0..(Len(cs) - 1) : ((idx + j) % Len(cs)) + 1 \in Unfailed(cs, failed) })
    IN  ((idx + k) % Len(cs)) + 1

\* C1: for a freshly constructed pool of size N >= 1 with an empty FailedSet, the k-th of
\* the get_next_cookie calls that directly follow construction (k = 1..2N, no other
\* operation in between) returns the extracted token of position (k-1) mod N
C1_FreshRoundRobin ==
    (hist.live /\ cookies # << >>) =>
        \A k \in 1..Len(hist.rets) :
            hist.rets[k] = extract_token(cookies[((k - 1) % Len(cookies)) + 1])

\* C2: when some pool position is not in FailedSet, get_next_cookie returns the extracted
\* token of the first position, in cyclic order from Cursor, whose raw string is not in
\* FailedSet, and leaves Cursor just past that position
C2_FirstUnfailed ==
    [][ (ret'.op = "get_next_cookie" /\ Unfailed(cookies, failed_cookies) # {}) =>
            LET pos == FirstUnfailedFrom(cookies, failed_cookies, current_index) IN
            /\ ret'.kind = "token"
            /\ ret'.val = extract_token(cookies[pos])
            /\ current_index' = pos % Len(cookies) ]_vars

\* C3: when the pool is non-empty and every entry is in FailedSet, get_next_cookie returns
\* the extracted token of Pool[0], leaves FailedSet empty and leaves Cursor where it was
C3_AllFailedReset ==
    [][ (ret'.op = "get_next_cookie" /\ cookies # << >> /\ Unfailed(cookies, failed_cookies) = {}) =>
            /\ ret'.kind = "token"
            /\ ret'.val = extract_token(cookies[1])
            /\ failed_cookies' = {}
            /\ current_index' = current_index ]_vars

\* C4: after any sequence of operations get_next_cookie completes with a token or with
\* 'no token available' and never raises (Cursor is an index of the Pool when it is read)
C4_SelectNeverRaises == ret.kind # "error"

\* C5: update_cookies always leaves Cursor = 0 and FailedSet = {}
C5_ReplaceResets ==
    ret.op = "update_cookies" => (current_index = 0 /\ failed_cookies = {})

\* C6: in every reachable state every member of FailedSet is the raw string of some
\* current Pool position
C6_FailedSubsetOfPool ==
    \A f \in failed_cookies : \E i \in 1..Len(cookies) : cookies[i] = f

\* C7: whenever the Pool is non-empty get_next_cookie returns a token; 'no token
\* available' is returned only when the Pool is empty
C7_ForwardProgress ==
    (ret.op = "get_next_cookie" /\ cookies # << >>) => (ret.kind = "token" /\ ret.val # NoneVal)

\* C8: if the Pool is empty, get_next_cookie returns 'no token available' and leaves
\* Cursor and FailedSet exactly as they were
C8_EmptyPoolFrame ==
    [][ (ret'.op = "get_next_cookie" /\ cookies = << >>) =>
            /\ ret'.kind = "none"
            /\ ret'.val = NoneVal
            /\ current_index' = current_index
            /\ failed_cookies' = failed_cookies ]_vars

\* C8 witness: get_next_cookie has answered on an empty Pool while a stale Cursor and a
\* stale FailedSet were present
C8_Witness ==
    /\ ret.op = "get_next_cookie"
    /\ cookies = << >>
    /\ ret.kind = "none"
    /\ current_index = 1
    /\ failed_cookies # {}

\* C9: mark_cookie_failed(token) adds to FailedSet exactly the raw string of the lowest
\* Pool position whose raw string equals the token or extracts to it, and nothing else;
\* with no such position FailedSet is unchanged; Pool, Cursor and the index are unchanged
C9_MarkFailedExact ==
    [][ ret'.op = "mark_cookie_failed" =>
            LET M == Matches(cookies, ret'.arg) IN
            /\ failed_cookies' = IF M = {} THEN failed_cookies
                                 ELSE failed_cookies \cup { cookies[Min(M)] }
            /\ cookies' = cookies
            /\ current_index' = current_index
            /\ cookie_info' = cookie_info ]_vars

\* C9 witness: the token was carried by two different entries, and after
\* mark_cookie_failed only the first of them is in FailedSet
C9_Witness ==
    /\ ret.op = "mark_cookie_failed"
    /\ Len(cookies) = 2
    /\ Matches(cookies, ret.arg) = {1, 2}
    /\ cookies[1] # cookies[2]
    /\ cookies[1] # ret.arg
    /\ failed_cookies = { cookies[1] }

\* C10: mark_cookie_success(token) removes from FailedSet at most the raw string of the
\* entry the token resolves to; when that entry is not in FailedSet, or the token resolves
\* to no entry, FailedSet is unchanged
C10_MarkSuccessFrame ==
    [][ ret'.op = "mark_cookie_success" =>
            LET M == Matches(cookies, ret'.arg)
                owner == IF M = {} THEN {} ELSE { cookies[Min(M)] }
            IN  /\ failed_cookies' \subseteq failed_cookies
                /\ (failed_cookies \ failed_cookies') \subseteq owner
                /\ (owner \cap failed_cookies = {}) => failed_cookies' = failed_cookies ]_vars

\* C10 witness: mark_cookie_success has resolved its token to an entry that is now not
\* in FailedSet, while another entry of the Pool is still in it
C10_Witness ==
    /\ ret.op = "mark_cookie_success"
    /\ Matches(cookies, ret.arg) # {}
    /\ cookies[Min(Matches(cookies, ret.arg))] \notin failed_cookies
    /\ \E i \in 1..Len(cookies) : cookies[i] \in failed_cookies

\* number of separators of s
SepCount(s) == Cardinality({ i \in 1..Len(s) : s[i] = Sep })

\* the text of s after its last separator (s holds one)
LastSegment(s) ==
    LET last == CHOOSE i \in 1..Len(s) : s[i] = Sep /\ \A j \in (i+1)..Len(s) : s[j] # Sep
    IN  SubSeq(s, last + 1, Len(s))

\* C11: extractToken(raw) returns the last segment if raw contains the separator exactly
\* twice (3 segments) and returns raw unchanged in every other case: no separator, one
\* separator, and three or more separators
C11_ExtractToken ==
    ret.op = "extract_token" =>
        ret.val = IF SepCount(ret.arg) = 2 THEN LastSegment(ret.arg) ELSE ret.arg

\* a raw string of the composite form email, separator, password, separator, token
IsComposite(raw) == SepCount(raw) = 2

\* two credential records with the same email, password and hasCredentials
SameCredentials(a, b) ==
    a.email = b.email /\ a.password = b.password /\ a.has_credentials = b.has_credentials

\* C12: in every reachable state, for every composite Pool entry raw, lookup(raw) and
\* lookup(extractToken(raw)) return the same credential record (same email, password
\* and hasCredentials)
C12_LookupsAgree ==
    \A i \in 1..Len(cookies) :
        IsComposite(cookies[i]) =>
            SameCredentials(get_cookie_info(cookie_info, cookies[i]),
                            get_cookie_info(cookie_info, extract_token(cookies[i])))

\* the email and the password a raw Pool entry carries (its first two segments)
EntryEmail(raw) == Split(raw)[1]
EntryPassword(raw) == Split(raw)[2]

\* a Pool entry with credentials and a non-empty password: email, separator, password,
\* with or without a token behind a second separator
Refreshable(raw) ==
    /\ SepCount(raw) \in {1, 2}
    /\ EntryEmail(raw) # EmptyStr
    /\ EntryPassword(raw) # EmptyStr

\* positions (1-based) of the Pool entries batchRefresh has to select
RefreshablePositions(cs) == { i \in 1..Len(cs) : Refreshable(cs[i]) }

\* a step that begins a batch_refresh_tokens call (and ends it when nothing is selected)
BatchBegins == refresh.pc = "idle" /\ ret'.op \in {"batch_refresh_start", "batch_refresh_tokens"}

\* C13: in every reachable state of the pool, batchRefresh starts exactly one
\* re-authentication for each Pool entry that has credentials and a non-empty password
\* (as many attempts as such entries, each with its entry's email and password), and
\* totalCount equals the number of such Pool entries
C13_OneAttemptPerEntry ==
    [][ BatchBegins =>
            LET E == RefreshablePositions(cookies)
                tasks == refresh'.tasks
            IN  /\ Len(tasks) = Cardinality(E)
                /\ \A i \in E : \E k \in 1..Len(tasks) :
                        /\ tasks[k].email = EntryEmail(cookies[i])
                        /\ tasks[k].password = EntryPassword(cookies[i])
                /\ (ret'.op = "batch_refresh_tokens") => ret'.total_count = Cardinality(E) ]_vars

\* a step that commits a batch_refresh_tokens call
BatchCommits == refresh.pc = "gather" /\ ret'.op = "batch_refresh_tokens"

\* the attempts of the batch in flight that yielded a token
Successes == { k \in 1..Len(refresh.tasks) : Truthy(refresh.results[k]) }

\* the Pool position (1-based) of the entry attempt k was started for, 0 when the Pool
\* holds no such entry
Target(k) == FirstIndex({ i \in 1..Len(cookies) : cookies[i] = refresh.tasks[k].cookie })

\* C14: for each successful re-authentication of a selected entry, batchRefresh replaces
\* the entry at its original Pool position with the composite email, separator,
\* password, separator, newToken built from that entry's own email and password; every
\* other position keeps its previous string
C14_RewriteInPlace ==
    [][ BatchCommits =>
            /\ Len(cookies') = Len(cookies)
            /\ \A i \in 1..Len(cookies) :
                   IF \E k \in Successes : Target(k) = i
                   THEN \E k \in Successes :
                            /\ Target(k) = i
                            /\ cookies'[i] = Join3(EntryEmail(cookies[i]), EntryPassword(cookies[i]),
                                                   refresh.results[k])
                   ELSE cookies'[i] = cookies[i] ]_vars

\* the record {email, password, hasCredentials: true}
IsCredentialsOf(info, email, password) ==
    info.email = email /\ info.password = password /\ info.has_credentials

\* C15: after batchRefresh commits a successful re-authentication, lookup(new composite)
\* and lookup(newToken) both return {email, password, hasCredentials: true} of that
\* entry, and the stale raw form no longer has an index entry; this holds for every
\* token the sign-in service may return, including one equal to the entry's current token
C15_IndexAfterCommit ==
    [][ BatchCommits =>
            \A k \in Successes : Target(k) # 0 =>
                LET old == refresh.tasks[k].cookie
                    email == EntryEmail(old)
                    password == EntryPassword(old)
                    new_token == refresh.results[k]
                    composite == Join3(email, password, new_token)
                IN  /\ IsCredentialsOf(get_cookie_info(cookie_info', composite), email, password)
                    /\ IsCredentialsOf(get_cookie_info(cookie_info', new_token), email, password)
                    /\ (old # composite) => ~DictHas(cookie_info', old) ]_vars

\* C16: batchRefresh never changes the length of Pool nor the position of any entry: the
\* Pool after its commit has the same length as the Pool it was derived from and differs
\* from it only at positions of successfully refreshed entries; Pool entries are removed
\* only by replace
C16_LengthAndPositions ==
    [][ /\ BatchCommits =>
               /\ Len(cookies') = Len(cookies)
               /\ \A i \in 1..Len(cookies) :
                      cookies'[i] # cookies[i] => \E k \in Successes : Target(k) = i
        /\ Len(cookies') < Len(cookies) => ret'.op = "update_cookies" ]_vars

\* the attempts of the batch in flight that yielded no token
Failures == { k \in 1..Len(refresh.tasks) : ~Truthy(refresh.results[k]) }

\* C17: a re-authentication that does not yield a token is counted in failedCount, and
\* the corresponding Pool entry and its CredentialIndex entries (under the raw string and
\* under its token) are left unchanged; the failure is never raised to the caller
C17_FailureLeavesEntry ==
    [][ BatchCommits =>
            /\ ret'.kind # "error"
            /\ ret'.failed_count >= Cardinality(Failures)
            /\ ret'.failed_count + ret'.refreshed_count = ret'.total_count
            /\ \A k \in Failures : Target(k) # 0 =>
                   LET raw == cookies[Target(k)] IN
                   /\ cookies'[Target(k)] = raw
                   /\ get_cookie_info(cookie_info', raw) = get_cookie_info(cookie_info, raw)
                   /\ get_cookie_info(cookie_info', extract_token(raw))
                          = get_cookie_info(cookie_info, extract_token(raw)) ]_vars

\* C18: a Pool entry without credentials or with an empty password is never
\* re-authenticated by batchRefresh (no attempt is started for it), never appears in
\* updatedEntries, and its Pool position holds the same string after batchRefresh as before
C18_OthersUntouched ==
    [][ /\ BatchBegins =>
               \A i \in 1..Len(cookies) : ~Refreshable(cookies[i]) =>
                   \A k \in 1..Len(refresh'.tasks) : refresh'.tasks[k].cookie # cookies[i]
        /\ BatchCommits =>
               \A i \in 1..Len(cookies) : ~Refreshable(cookies[i]) =>
                   /\ cookies'[i] = cookies[i]
                   /\ \A j \in 1..Len(ret'.updated_cookies) : ret'.updated_cookies[j] # cookies[i] ]_vars

\* C19: a selectNext that runs concurrently with batchRefresh never observes a partially
\* committed refresh: get_next_cookie leaves the Pool as it reads it, and every change of
\* the Pool other than a replace is made by the one step that ends the batch, so the Pool
\* is the one before the commit or the one with all rewrites of the batch applied
C19_NoPartialCommit ==
    [][ /\ ret'.op = "get_next_cookie" => cookies' = cookies
        /\ (cookies' # cookies /\ ret'.op # "update_cookies") =>
               (BatchCommits /\ refresh'.pc = "idle") ]_vars

\* C19 witness: get_next_cookie has returned a token of the Pool while a batch was in
\* flight with one sign-in answered by a new token and another still outstanding
C19_Witness ==
    /\ ret.op = "get_next_cookie"
    /\ ret.kind = "token"
    /\ refresh.pc = "gather"
    /\ \E k \in 1..Len(refresh.tasks) : refresh.results[k] = <<"n">>
    /\ \E k \in 1..Len(refresh.tasks) : refresh.results[k] = Pending
    /\ \E i \in 1..Len(cookies) : extract_token(cookies[i]) = ret.val

\* raw strings whose token the probe reports healthy
HealthyRaws == { raw \in RawUniverse : health_check(extract_token(raw)) }

\* C20: under fair scheduling of HealthLoop and without cancellation, every member of
\* FailedSet whose token the probe reports healthy is eventually removed from FailedSet,
\* for every state in which FailedSet can be non-empty, including after a batchRefresh or
\* replace changed the Pool
C20_HealthyEventuallyRemoved ==
    \A raw \in HealthyRaws : (raw \in failed_cookies) ~> (raw \notin failed_cookies)

\* C21: neither background loop ends because of a fault in an iteration: a loop's task
\* ends only in lifespan's cancellation, and a loop that caught a fault and sleeps the
\* retry interval goes on to another iteration unless it is cancelled first
C21_LoopsSurviveFaults ==
    /\ [][ /\ (health'.pc = Stopped /\ health.pc # Stopped) => ret'.op = "lifespan_shutdown"
           /\ (loop'.pc = Stopped /\ loop.pc # Stopped) => ret'.op = "lifespan_shutdown" ]_vars
    /\ (health.pc = "retry") ~> (health.pc \in {"sleep", "probe", Stopped})
    /\ (loop.pc = "retry") ~> (loop.pc \in {"sleep", "refreshing", Stopped})

\* C21 witness: the health loop caught a fault, slept the retry interval and is probing
\* again, while the refresh loop sleeps its own retry interval after a fault
C21_Witness ==
    /\ ret.op = "periodic_health_check"
    /\ ret.kind = "none"
    /\ health.pc = "probe"
    /\ loop.pc = "retry"

\* C22: health_check answers healthy exactly when the upstream answered with status 200;
\* every other status and every transport fault gives unhealthy, returned and not
\* raised; and the probe changes neither Pool nor FailedSet nor Cursor
C22_ProbeExactly200 ==
    [][ ret'.op = "test_cookie" =>
            /\ ret'.kind = "bool"
            /\ ret'.val = Bool(ret'.response = <<"200">>)
            /\ cookies' = cookies
            /\ failed_cookies' = failed_cookies
            /\ current_index' = current_index ]_vars

\* C22 witness: the upstream answered 201 to the probe of a token of the Pool, the probe
\* returned unhealthy, and the FailedSet and the Cursor it found are still there
C22_Witness ==
    /\ ret.op = "test_cookie"
    /\ ret.response = <<"201">>
    /\ ret.val = Bool(FALSE)
    /\ Matches(cookies, ret.arg) # {}
    /\ failed_cookies # {}
    /\ current_index > 0

\* C23: every step that writes Pool, Cursor, FailedSet or the credential index does so
\* while holding self.lock: no operation writes one of the four outside the exclusive
\* section
C23_WritesUnderLock ==
    ret.unlocked = {}

\* the manager constructed over a pool of at most one cookie (the lists the Admin
\* API is given are such pools), with requests, the Admin API batch and the health
\* loop interleaved as in NextHealth
InitLock ==
    /\ Init
    /\ cookies \in UpdateLists

SpecLock == InitLock /\ [][NextHealth]_vars

\* a sign-in of the batch or a probe of the health loop is outstanding
NetworkCallOutstanding ==
    \/ refresh.pc = "gather" /\ ~Gathered(refresh)
    \/ health.pc = "probe"

\* C24: no task holds self.lock while one of its network calls is outstanding: whenever
\* a sign-in or a probe is outstanding the lock is free, so get_next_cookie,
\* mark_cookie_failed and mark_cookie_success are not kept waiting by it
C24_NoLockAcrossNetwork ==
    NetworkCallOutstanding => lock = "free"

\* C24 witness: get_next_cookie has just returned a token while sign-ins of a batch and
\* a probe of the health loop were both outstanding
C24_Witness ==
    /\ refresh.pc = "gather" /\ ~Gathered(refresh)
    /\ health.pc = "probe"
    /\ ret.op = "get_next_cookie"
    /\ ret.kind = "token"
    /\ lock = "free"

\* C25: during one call of batch_refresh_tokens the number of sign-in attempts in
\* flight at the same time never exceeds max_concurrent
C25_AtMostMaxConcurrent ==
    refresh.pc = "gather" => Cardinality(InFlight(refresh)) <= refresh.max_concurrent

\* C25 witness: max_concurrent attempts are in flight and another selected attempt is
\* waiting for the semaphore
C25_Witness ==
    /\ refresh.pc = "gather"
    /\ Cardinality(InFlight(refresh)) = refresh.max_concurrent
    /\ \E i \in 1..Len(refresh.tasks) : refresh.results[i] = Pending

\* C26: batch_refresh_tokens commits and returns only after every selected attempt has
\* finished, with all of them counted; an attempt that ends, with a token or without,
\* leaves every other attempt of the batch as it was, and the batch waiting; and at the
\* commit every attempt that yielded a token for an entry of the Pool has its token in
\* that entry, whatever became of the other attempts
C26_CommitAfterAllAttempts ==
    [][ /\ BatchCommits =>
               /\ Gathered(refresh)
               /\ ret'.total_count = Len(refresh.tasks)
        /\ ret'.op = "refresh_token" =>
               /\ refresh'.pc = "gather"
               /\ refresh'.tasks = refresh.tasks
               /\ Cardinality({ j \in 1..Len(refresh.tasks) :
                                    refresh'.results[j] # refresh.results[j] }) = 1
        /\ BatchCommits =>
               \A k \in Successes : Target(k) # 0 =>
                   cookies'[Target(k)] = Join3(EntryEmail(cookies[Target(k)]),
                                               EntryPassword(cookies[Target(k)]),
                                               refresh.results[k]) ]_vars

\* a step in which auto_refresh_periodic begins an iteration
IterationBegins ==
    /\ loop.pc \in {"sleep", "retry"}
    /\ ret'.arg = Loop
    /\ ret'.op \in {"auto_refresh_periodic", "batch_refresh_start", "batch_refresh_tokens"}

\* a step in which the batch_refresh_tokens() of auto_refresh_periodic returns its result
LoopBatchReturns ==
    \/ loop.pc = "refreshing" /\ ret'.op = "batch_refresh_tokens"
    \/ IterationBegins /\ ret'.op = "batch_refresh_tokens"

\* C27 as stated: in each iteration of the refresh loop batch_refresh_tokens is called
\* iff the flag is set at that iteration, and the configured cookie list and the
\* environment file hold the current Pool afterwards iff the call reported at least one
\* refreshed entry, being left as they were otherwise
C27_PersistIffRefreshed ==
    [][ /\ IterationBegins =>
               (ret'.op \in {"batch_refresh_start", "batch_refresh_tokens"}
                    <=> settings.AUTO_REFRESH_TOKENS)
        /\ LoopBatchReturns =>
               IF ret'.refreshed_count > 0
               THEN /\ settings'.COOKIES = cookies'
                    /\ settings'.env = JoinComma(cookies')
               ELSE settings' = settings ]_vars

\* C27 amended: as above for the call and for the configured cookie list; the
\* environment file is written only after a call that refreshed an entry, only when
\* the file exists, and a write that fails leaves it as it was
C27_PersistBestEffort ==
    [][ /\ IterationBegins =>
               (ret'.op \in {"batch_refresh_start", "batch_refresh_tokens"}
                    <=> settings.AUTO_REFRESH_TOKENS)
        /\ LoopBatchReturns =>
               IF ret'.refreshed_count > 0
               THEN /\ settings'.COOKIES = cookies'
                    /\ settings'.env \in {settings.env, JoinComma(cookies')}
                    /\ settings.env = NoneVal => settings'.env = NoneVal
               ELSE settings' = settings ]_vars

\* C27 witness: the loop's call refreshed an entry, the configured cookie list holds the
\* new Pool, and the environment file, which exists, still holds the old list
C27_Witness ==
    /\ ret.op = "batch_refresh_tokens"
    /\ ret.arg = Loop
    /\ ret.refreshed_count > 0
    /\ loop.pc = "sleep"
    /\ settings.COOKIES = cookies
    /\ settings.env # NoneVal
    /\ settings.env # JoinComma(cookies)

\* C28: every result of batch_refresh_tokens has refreshed_count + failed_count =
\* total_count and len(updated_cookies) = refreshed_count, and total_count is the number
\* of attempts of the call: each attempt is counted once, as refreshed or as failed
C28_CountsAddUp ==
    [][ ret'.op = "batch_refresh_tokens" =>
            /\ ret'.refreshed_count + ret'.failed_count = ret'.total_count
            /\ Len(ret'.updated_cookies) = ret'.refreshed_count
            /\ ret'.total_count = IF BatchCommits THEN Len(refresh.tasks) ELSE 0 ]_vars

\* C28 witness: a call with three attempts has returned after update_cookies emptied
\* the Pool: all three are counted as failed
C28_Witness ==
    /\ ret.op = "batch_refresh_tokens"
    /\ cookies = << >>
    /\ ret.total_count = 3
    /\ ret.failed_count = 3

\* the attempts of the batch whose entry is not in the Pool
Absent == { k \in 1..Len(refresh.tasks) : Target(k) = 0 }

\* C29: a batch that commits after update_cookies replaced the Pool during its wait
\* derives the new Pool from the replaced one: same length, and a position differs only
\* if its raw string was the raw string of an attempt that yielded a token; attempts
\* whose entry is absent from the replaced Pool are counted as failed, and when every
\* entry is absent the commit writes nothing
C29_ReplaceNotUndone ==
    [][ (BatchCommits /\ refresh.replaced) =>
            /\ Len(cookies') = Len(cookies)
            /\ \A i \in 1..Len(cookies) :
                   cookies'[i] # cookies[i] =>
                       \E k \in Successes : refresh.tasks[k].cookie = cookies[i]
            /\ ret'.failed_count >= Cardinality(Absent \cup Failures)
            /\ (Absent = 1..Len(refresh.tasks)) =>
                   (cookies' = cookies /\ cookie_info' = cookie_info) ]_vars

\* C30: every token get_next_cookie returns is _extract_token of an entry that is in
\* the Pool at the time of the call; so after a committed refresh or a replace no call
\* returns a token that only the old Pool carried
C30_TokenOfCurrentPool ==
    [][ (ret'.op = "get_next_cookie" /\ ret'.kind = "token") =>
            \E i \in 1..Len(cookies) : extract_token(cookies[i]) = ret'.val ]_vars

\* C30 witness: after a committed refresh get_next_cookie has returned the new token of
\* the refreshed entry, whose old token no Pool entry carries any more
C30_Witness ==
    /\ ret.op = "get_next_cookie"
    /\ ret.kind = "token"
    /\ ret.val = <<"n">>
    /\ nrefresh > 0
    /\ \A i \in 1..Len(cookies) : extract_token(cookies[i]) # <<"t">>

\* the Admin API's call and the loop's call of batch_refresh_tokens were in flight
\* together and both have returned
BothCommitted ==
    /\ loop.pc = "sleep"
    /\ loop.overlapped
    /\ refresh.pc = "idle"

\* the attempts of the loop's call started for the entry at position k of the pool
\* both calls selected from (the Admin API's call started the same ones)
AttemptsFor(k) == { j \in 1..Len(loop.tasks) : loop.tasks[j].cookie = loop.before[k] }

\* the entry at position k was re-authenticated by both calls: the loop's attempt
\* for it returned a token, as the Admin API's always does
ReauthenticatedByBoth(k) == \E j \in AttemptsFor(k) : Truthy(loop.results[j])

\* C31: when the Admin API's call and the refresh loop's call of batchRefresh overlap
\* and both re-authenticate the same Pool entry, then after both have committed the
\* Pool has its original length, that position holds the composite email, separator,
\* password, separator, token whose token one of the two sign-in attempts returned,
\* and every position no attempt was started for holds its original string
C31_OverlapLosesNothing ==
    (BothCommitted /\ \E k \in 1..Len(loop.before) : ReauthenticatedByBoth(k)) =>
        /\ Len(cookies) = Len(loop.before)
        /\ \A k \in 1..Len(loop.before) :
               /\ ReauthenticatedByBoth(k) =>
                      \E token \in {AdminSignInToken} \cup { loop.results[j] : j \in AttemptsFor(k) } :
                          /\ Truthy(token)
                          /\ cookies[k] = Join3(EntryEmail(loop.before[k]),
                                                EntryPassword(loop.before[k]), token)
               /\ AttemptsFor(k) = {} => cookies[k] = loop.before[k]

=============================================================================
